---- MODULE Spec2Model ----
(***************************************************************************)
(* leetrack frontend: the route table of App.jsx and the axios client of   *)
(* api/apiClient.js with its request interceptor.                          *)
(*                                                                         *)
(* A JavaScript value that may be null/undefined is an option: <<>> is     *)
(* null, <<v>> is the value v.  A JavaScript object (the header bag,       *)
(* localStorage) is a function whose DOMAIN is the set of keys present.    *)
(***************************************************************************)
EXTENDS Integers, Sequences, FiniteSets, TLC

VARIABLES localStorage, written, requests, location, rendered, renderTok

vars == <<localStorage, written, requests, location, rendered, renderTok>>

(* ------------------------------ bounds --------------------------------- *)

\* number of requests issued through apiClient in one behaviour
MaxRequests == 2

(* ------------------------------ values --------------------------------- *)

Null == <<>>

Some(v) == <<v>>

\* the storage key the interceptor reads
TOKEN_KEY == "accessToken"

\* strings an external writer may store under the key
StoredStrings == {"", "t1", "t2"}

\* import.meta.env.VITE_API_BASE_URL
API_BASE_URL == "http://localhost:8000/api"

\* the header bag given to axios.create
DefaultHeaders == [h \in {"Content-Type"} |-> "application/json"]

\* errors that can arise while a request is set up
SetupErrors == {"ERR_BAD_OPTION", "ERR_CANCELED"}

\* URL paths the browser can be at
Paths == {"/login", "/", "/settings", "/about"}

(* --------------------------- localStorage ------------------------------ *)

\* localStorage.getItem(key): the stored string, or null when the key is absent
getItem(store, key) == IF key \in DOMAIN store THEN Some(store[key]) ELSE Null

\* localStorage.setItem(key, value)
setItem(store, key, value) ==
  [k \in DOMAIN store \cup {key} |-> IF k = key THEN value ELSE store[k]]

\* localStorage.removeItem(key)
removeItem(store, key) == [k \in DOMAIN store \ {key} |-> store[k]]

\* variant: a test against null only (token !== null)
TruthyNotNull(v) == v # Null

\* JavaScript truthiness of a value that is null or a string
Truthy(v) == v # Null /\ v[1] # ""

(* ------------------------------ apiClient ------------------------------ *)

\* config.headers[name] = value
SetHeader(headers, name, value) ==
  [h \in DOMAIN headers \cup {name} |-> IF h = name THEN value ELSE headers[h]]

\* the request configurations callers pass to apiClient
CallerConfigs ==
  { [ url |-> "/problems", method |-> "get", data |-> Null,
      headers |-> [h \in {} |-> ""] ],
    [ url |-> "/auth/refresh", method |-> "post", data |-> Some("{}"),
      headers |-> [h \in {"Authorization"} |-> "Bearer t1"] ],
    [ url |-> "/submissions", method |-> "post", data |-> Some("{}"),
      headers |-> [h \in {"Authorization"} |-> "Bearer "] ] }

\* the configuration the interceptor receives for a call: the instance
\* defaults (baseURL, headers) merged with the call's own configuration
MergedConfig(c) ==
  [ baseURL |-> API_BASE_URL,
    url     |-> c.url,
    method  |-> c.method,
    data    |-> c.data,
    headers |-> [h \in DOMAIN DefaultHeaders \cup DOMAIN c.headers |->
                   IF h \in DOMAIN c.headers THEN c.headers[h]
                   ELSE DefaultHeaders[h]] ]

\* variant: the header is set only when the caller has not set one
onFulfilledKeepCaller(config) ==
  LET token == getItem(localStorage, TOKEN_KEY)
  IN  IF Truthy(token) /\ "Authorization" \notin DOMAIN config.headers
      THEN [config EXCEPT
              !.headers = SetHeader(@, "Authorization", "Bearer " \o token[1])]
      ELSE config

\* variant: the header is set without the test of the token
onFulfilledNoGuard(config) ==
  LET token == getItem(localStorage, TOKEN_KEY)
  IN  [config EXCEPT
         !.headers = SetHeader(@, "Authorization",
                       "Bearer " \o (IF token = Null THEN "null" ELSE token[1]))]

\* variant: the header is deleted when there is no token
onFulfilledStrip(config) ==
  LET token == getItem(localStorage, TOKEN_KEY)
  IN  IF Truthy(token)
      THEN [config EXCEPT
              !.headers = SetHeader(@, "Authorization", "Bearer " \o token[1])]
      ELSE [config EXCEPT
              !.headers = [h \in DOMAIN @ \ {"Authorization"} |-> @[h]]]

\* variant: the token is the one read when App last rendered, not the one
\* in storage when the handler runs
onFulfilledCached(config) ==
  LET token == renderTok
  IN  IF Truthy(token)
      THEN [config EXCEPT
              !.headers = SetHeader(@, "Authorization", "Bearer " \o token[1])]
      ELSE config

\* variant: the header bag is replaced, not extended
onFulfilledReplaceHeaders(config) ==
  LET token == getItem(localStorage, TOKEN_KEY)
  IN  IF Truthy(token)
      THEN [config EXCEPT
              !.headers = [h \in {"Authorization"} |-> "Bearer " \o token[1]]]
      ELSE config

\* fulfilled handler of the request interceptor
onFulfilled(config) ==
  LET token == getItem(localStorage, TOKEN_KEY)
  IN  IF Truthy(token)
      THEN [config EXCEPT
              !.headers = SetHeader(@, "Authorization", "Bearer " \o token[1])]
      ELSE config

\* variant: the error is wrapped in a new one
onRejectedWrapped(error) ==
  [state |-> "rejected", reason |-> Some("Request failed: " \o error)]

\* rejected handler of the request interceptor: Promise.reject(error)
onRejected(error) == [state |-> "rejected", reason |-> Some(error)]

(* -------------------------------- App ---------------------------------- *)

h1(text) == [type |-> "h1", children |-> text]

\* what <Routes> renders when no route matches
NoElement == [type |-> "null", children |-> ""]

\* variant: the third route repeats the path of the second
RoutesRepeatedPath ==
  << [path |-> "/login", element |-> h1("Login Page")],
     [path |-> "/",      element |-> h1("Dashboard Page")],
     [path |-> "/",      element |-> h1("Settings Page")] >>

\* the <Route> children of <Routes>, in source order
Routes ==
  << [path |-> "/login",    element |-> h1("Login Page")],
     [path |-> "/",         element |-> h1("Dashboard Page")],
     [path |-> "/settings", element |-> h1("Settings Page")] >>

\* variant: every path but /login renders the login page without a token
AppGuarded(path) ==
  LET m == {i \in DOMAIN Routes : Routes[i].path = path}
  IN  IF m = {} THEN NoElement
      ELSE IF path # "/login" /\ ~Truthy(getItem(localStorage, TOKEN_KEY))
      THEN h1("Login Page")
      ELSE Routes[CHOOSE i \in m : \A j \in m : i <= j].element

\* the element App renders at a path
App(path) ==
  LET m == {i \in DOMAIN Routes : Routes[i].path = path}
  IN  IF m = {} THEN NoElement
      ELSE Routes[CHOOSE i \in m : \A j \in m : i <= j].element

(* ------------------------------ state ---------------------------------- *)

Stores ==
  { [k \in {} |-> ""] } \cup { [k \in {TOKEN_KEY} |-> s] : s \in StoredStrings }

Init ==
  /\ localStorage \in Stores
  /\ written = localStorage
  /\ requests = <<>>
  /\ location \in Paths
  /\ rendered = App(location)
  /\ renderTok = getItem(localStorage, TOKEN_KEY)

\* a caller issues a request; err is the error, if any, raised while the
\* request is set up before the interceptor's handlers run
Request(c, err) ==
  /\ Len(requests) < MaxRequests
  /\ requests' = Append(requests,
       [ entry  |-> MergedConfig(c),
         config |-> MergedConfig(c),
         err    |-> err,
         pc     |-> "setup",
         reason |-> Null,
         seen   |-> Null,
         runs   |-> 0 ])
  /\ UNCHANGED <<localStorage, written, location, rendered, renderTok>>

\* the interceptor's fulfilled handler runs on request i
Fulfilled(i) ==
  /\ requests[i].pc = "setup"
  /\ requests[i].err = Null
  /\ requests' = [requests EXCEPT
       ![i].config = onFulfilled(@),
       ![i].seen   = getItem(localStorage, TOKEN_KEY),
       ![i].runs   = @ + 1,
       ![i].pc     = "dispatched"]
  /\ UNCHANGED <<localStorage, written, location, rendered, renderTok>>

\* variant: the rejected handler also removes the stored token
RejectedClearsToken(i) ==
  /\ requests[i].pc = "setup"
  /\ requests[i].err # Null
  /\ LET p == onRejected(requests[i].err[1])
     IN  requests' = [requests EXCEPT
           ![i].reason = p.reason,
           ![i].pc     = IF p.state = "rejected" THEN "rejected" ELSE "dispatched"]
  /\ localStorage' = removeItem(localStorage, TOKEN_KEY)
  /\ UNCHANGED <<written, location, rendered, renderTok>>

\* the interceptor's rejected handler runs on request i
Rejected(i) ==
  /\ requests[i].pc = "setup"
  /\ requests[i].err # Null
  /\ LET p == onRejected(requests[i].err[1])
     IN  requests' = [requests EXCEPT
           ![i].reason = p.reason,
           ![i].pc     = IF p.state = "rejected" THEN "rejected" ELSE "dispatched"]
  /\ UNCHANGED <<localStorage, written, location, rendered, renderTok>>

\* code outside the client stores a token (after login)
StoreToken(s) ==
  /\ getItem(localStorage, TOKEN_KEY) # Some(s)
  /\ localStorage' = setItem(localStorage, TOKEN_KEY, s)
  /\ written' = localStorage'
  /\ UNCHANGED <<requests, location, rendered, renderTok>>

\* code outside the client removes the token (logout)
RemoveToken ==
  /\ TOKEN_KEY \in DOMAIN localStorage
  /\ localStorage' = removeItem(localStorage, TOKEN_KEY)
  /\ written' = localStorage'
  /\ UNCHANGED <<requests, location, rendered, renderTok>>

\* the browser location becomes path and App renders
Navigate(path) ==
  /\ location' = path
  /\ rendered' = App(path)
  /\ renderTok' = getItem(localStorage, TOKEN_KEY)
  /\ UNCHANGED <<localStorage, written, requests>>

Next ==
  \/ \E c \in CallerConfigs, e \in {Null} \cup {Some(x) : x \in SetupErrors} :
       Request(c, e)
  \/ \E i \in DOMAIN requests : Fulfilled(i)
  \/ \E i \in DOMAIN requests : Rejected(i)
  \/ \E s \in StoredStrings : StoreToken(s)
  \/ RemoveToken
  \/ \E p \in Paths : Navigate(p)

Spec == Init /\ [][Next]_vars

(* ------------------------------ properties ----------------------------- *)

\* the requests that have left the interceptor's fulfilled handler
Dispatched == {i \in DOMAIN requests : requests[i].pc = "dispatched"}

HasAuthorization(config) == "Authorization" \in DOMAIN config.headers

Authorization(config) == config.headers["Authorization"]

\* the credential of an Authorization header of the form "Bearer <credential>"
Credentials == StoredStrings \cup {"null"}

BearerCredential(config) ==
  IF HasAuthorization(config)
     /\ \E t \in Credentials : Authorization(config) = "Bearer " \o t
  THEN Some(CHOOSE t \in Credentials : Authorization(config) = "Bearer " \o t)
  ELSE Null

\* C1 as stated: whatever string is stored under "accessToken" when the
\* interceptor runs, the request leaves with Authorization = "Bearer " + it.
C1_AsStated ==
  \A i \in Dispatched :
    requests[i].seen # Null =>
      /\ HasAuthorization(requests[i].config)
      /\ Authorization(requests[i].config) = "Bearer " \o requests[i].seen[1]

\* C1 (amended): for every non-empty string stored under "accessToken" when the
\* interceptor runs, the request leaves with Authorization equal to exactly
\* "Bearer " followed by that string, whatever the caller had put there.
C1_BearerIsStoredToken ==
  \A i \in Dispatched :
    (requests[i].seen # Null /\ requests[i].seen[1] # "") =>
      /\ HasAuthorization(requests[i].config)
      /\ Authorization(requests[i].config) = "Bearer " \o requests[i].seen[1]

C1_Witness ==
  \E i \in Dispatched :
    /\ requests[i].seen = Some("t2")
    /\ HasAuthorization(requests[i].entry)
    /\ Authorization(requests[i].entry) = "Bearer t1"
    /\ Authorization(requests[i].config) = "Bearer t2"

\* C2 as stated: with no token stored when the interceptor runs, the request
\* leaves without an Authorization header, also when the caller had set one.
C2_AsStated ==
  \A i \in Dispatched :
    requests[i].seen = Null => ~HasAuthorization(requests[i].config)

\* C2 (amended): with no token stored when the interceptor runs, the
\* interceptor adds no Authorization header: the request leaves with one only
\* if the caller had set it, and then with the caller's value.
C2_NoHeaderAdded ==
  \A i \in Dispatched :
    requests[i].seen = Null =>
      /\ HasAuthorization(requests[i].config) <=> HasAuthorization(requests[i].entry)
      /\ HasAuthorization(requests[i].config) =>
           Authorization(requests[i].config) = Authorization(requests[i].entry)

C2_Witness ==
  /\ \E i \in Dispatched :
       requests[i].seen = Null /\ ~HasAuthorization(requests[i].config)
  /\ \E j \in Dispatched :
       requests[j].seen = Null /\ HasAuthorization(requests[j].config)

\* C3: with no token stored when the interceptor runs, the configuration the
\* interceptor returns equals the one it was given, field by field.
C3_IdentityWithoutToken ==
  \A i \in Dispatched :
    requests[i].seen = Null => requests[i].config = requests[i].entry

C3_Witness ==
  \E i \in Dispatched :
    /\ requests[i].seen = Null
    /\ HasAuthorization(requests[i].entry)
    /\ requests[i].entry.method = "post"

\* C4: a request whose setup failed with error e is rejected with reason
\* exactly e; it never becomes a dispatched request, and the step that rejects
\* it changes neither the stored token nor any request's configuration.
C4_RejectionPassesThrough ==
  [][\A i \in DOMAIN requests :
       /\ requests[i].err # Null =>
            /\ i \in DOMAIN requests'
            /\ requests'[i].pc # "dispatched"
       /\ (requests[i].pc = "setup" /\ requests[i].err # Null
           /\ requests'[i].pc # "setup") =>
            /\ requests'[i].pc = "rejected"
            /\ requests'[i].reason = requests[i].err
            /\ requests'[i].config = requests[i].entry
            /\ localStorage' = localStorage
            /\ \A j \in DOMAIN requests \ {i} : requests'[j] = requests[j]]_vars

C4_Witness ==
  \E i \in DOMAIN requests :
    /\ requests[i].pc = "rejected"
    /\ requests[i].reason = Some("ERR_CANCELED")
    /\ requests[i].err = Some("ERR_CANCELED")
    /\ Truthy(getItem(localStorage, TOKEN_KEY))

\* C5: the route table has exactly the paths "/login", "/" and "/settings";
\* at "/login" App renders the heading "Login Page", at "/" "Dashboard Page",
\* at "/settings" "Settings Page", and at any other path none of them.
C5_RouteTable ==
  /\ Len(Routes) = 3
  /\ {Routes[i].path : i \in DOMAIN Routes} = {"/login", "/", "/settings"}
  /\ location = "/login" => rendered = h1("Login Page")
  /\ location = "/" => rendered = h1("Dashboard Page")
  /\ location = "/settings" => rendered = h1("Settings Page")
  /\ location \notin {"/login", "/", "/settings"} => rendered = NoElement
  /\ Cardinality({Routes[i].element : i \in DOMAIN Routes}) = 3

C5_Witness == location = "/settings" /\ rendered = h1("Settings Page")

\* C6 as stated: every dispatched request was intercepted once and carries
\* the token that was stored when it was intercepted, and no other.
C6_AsStated ==
  \A i \in Dispatched :
    /\ requests[i].runs = 1
    /\ BearerCredential(requests[i].config) =
         (IF Truthy(requests[i].seen) THEN requests[i].seen ELSE Null)

\* C6 (amended): every dispatched request was intercepted exactly once; if a
\* non-empty token was stored at that instant the request carries exactly that
\* token, otherwise it keeps the headers the caller gave it; later changes of
\* the stored token leave it as it is.
C6_TokenOfTheInstant ==
  \A i \in Dispatched :
    /\ requests[i].runs = 1
    /\ Truthy(requests[i].seen) =>
         requests[i].config.headers =
           SetHeader(requests[i].entry.headers, "Authorization",
                     "Bearer " \o requests[i].seen[1])
    /\ ~Truthy(requests[i].seen) =>
         requests[i].config.headers = requests[i].entry.headers

C6_Witness ==
  \E i, j \in Dispatched :
    /\ requests[i].seen = Some("t1")
    /\ requests[j].seen = Some("t2")
    /\ BearerCredential(requests[i].config) = Some("t1")
    /\ BearerCredential(requests[j].config) = Some("t2")
    /\ getItem(localStorage, TOKEN_KEY) = Null

\* C7: with a token stored when the interceptor runs, every field of the
\* configuration other than the Authorization header (URL, method, body,
\* base URL, Content-Type and any other header) leaves as it entered.
C7_OnlyAuthorizationChanges ==
  \A i \in Dispatched :
    Truthy(requests[i].seen) =>
      /\ requests[i].config.url = requests[i].entry.url
      /\ requests[i].config.method = requests[i].entry.method
      /\ requests[i].config.data = requests[i].entry.data
      /\ requests[i].config.baseURL = requests[i].entry.baseURL
      /\ DOMAIN requests[i].config.headers \ {"Authorization"} =
           DOMAIN requests[i].entry.headers \ {"Authorization"}
      /\ \A h \in DOMAIN requests[i].entry.headers \ {"Authorization"} :
           requests[i].config.headers[h] = requests[i].entry.headers[h]

C7_Witness ==
  \E i \in Dispatched :
    /\ Truthy(requests[i].seen)
    /\ requests[i].config.headers # requests[i].entry.headers
    /\ requests[i].config.method = "post"
    /\ requests[i].config.data # Null
    /\ requests[i].config.headers["Content-Type"] = "application/json"

\* C8: a step that leaves the path where it is leaves the rendered element
\* where it is, whatever happens to the stored token; and a step that renders
\* a route changes neither the stored token nor any request.
C8_RoutesAndClientShareNoState ==
  [][/\ location' = location => rendered' = rendered
     /\ (location' # location \/ rendered' # rendered \/ renderTok' # renderTok) =>
          (localStorage' = localStorage /\ requests' = requests)]_vars

C8_Witness ==
  /\ location = "/settings"
  /\ rendered = h1("Settings Page")
  /\ renderTok = Null
  /\ getItem(localStorage, TOKEN_KEY) = Null
  /\ requests # <<>>

\* C9 as stated: an empty string stored under "accessToken" leaves the request
\* unmodified, and no request leaves with the header value "Bearer ".
C9_AsStated ==
  \A i \in Dispatched :
    /\ requests[i].seen = Some("") => requests[i].config = requests[i].entry
    /\ ~(HasAuthorization(requests[i].config)
         /\ Authorization(requests[i].config) = "Bearer ")

\* C9 (amended): an empty string stored under "accessToken" leaves the request
\* unmodified, and a request leaves with the header value "Bearer " only if
\* the caller had put that value on it.
C9_EmptyTokenIsNoToken ==
  \A i \in Dispatched :
    /\ requests[i].seen = Some("") => requests[i].config = requests[i].entry
    /\ (HasAuthorization(requests[i].config)
        /\ Authorization(requests[i].config) = "Bearer ") =>
         (HasAuthorization(requests[i].entry)
          /\ Authorization(requests[i].entry) = "Bearer ")

C9_Witness ==
  \E i \in Dispatched :
    /\ requests[i].seen = Some("")
    /\ ~HasAuthorization(requests[i].config)

\* C10: the value stored under "accessToken" is always what the last writer
\* outside the client left there; the interceptor's handlers never write it.
C10_ClientOnlyReadsToken == localStorage = written

C10_Witness ==
  /\ \E i \in DOMAIN requests : requests[i].pc = "dispatched"
  /\ \E j \in DOMAIN requests : requests[j].pc = "rejected"
  /\ getItem(localStorage, TOKEN_KEY) = Some("t1")

====
